---- MODULE Spec2Model ----
(***************************************************************************)
(* A model of the health-check core of openshift_health_checker:           *)
(*   openshift_checks/__init__.py  (OpenShiftCheck, OpenShiftCheckException) *)
(*   openshift_checks/mixins.py    (NotContainerizedMixin, DockerHostMixin)  *)
(*                                                                         *)
(* Python values are tagged records [t |-> type, v |-> payload].  A Python *)
(* string is a sequence of atoms: an atom is one character, or a chunk of  *)
(* characters that holds no separator ("." or "/") and is never adjacent   *)
(* to another chunk, so splitting and joining on separators act on the     *)
(* sequence exactly as they act on the characters.  A Python dict is a set *)
(* of entries [k |-> key, v |-> value] with distinct keys.                 *)
(***************************************************************************)
EXTENDS Integers, Sequences, FiniteSets, TLC

VARIABLES
    task_vars,        \* self.task_vars: the configuration tree (a dict value)
    _execute_module,  \* self._execute_module: "None" or the injected callable
    tmp,              \* self.tmp
    changed,          \* self.changed
    check_class,      \* the class of the check: its mixins, base is_active, dependencies
    class_bases,      \* the check classes defined so far: sequence of base sets
    pc,               \* position of the running call
    op,               \* the call in progress or last finished: name and arguments
    mount_for_path,   \* local of find_ansible_mount
    mount_point,      \* local of find_ansible_mount
    result,           \* what the last call returned or raised
    calls             \* invocations of the injected callable during the call

vars == <<task_vars, _execute_module, tmp, changed, check_class, class_bases, pc, op,
          mount_for_path, mount_point, result, calls>>

\* what a call that only computes leaves alone
fields == <<task_vars, _execute_module, tmp, changed, check_class, class_bases>>
locals == <<mount_for_path, mount_point>>

(***************************************************************************)
(* Bounds of the model.                                                    *)
(***************************************************************************)
MaxPathLen == 4
MaxMounts == 2
MaxDepth == 3
MaxKeys == 3
MaxKeyLen == 3
MaxTagLen == 4
MaxClasses == 4

(***************************************************************************)
(* Python values.                                                          *)
(***************************************************************************)
PyNone == [t |-> "None", v |-> "None"]
PyBool(b) == [t |-> "bool", v |-> b]
PyInt(n) == [t |-> "int", v |-> n]
PyStr(s) == [t |-> "str", v |-> s]
PyList(q) == [t |-> "list", v |-> q]
PyDict(entries) == [t |-> "dict", v |-> entries]

\* a one-chunk string such as "ansible_mounts"
S(name) == <<name>>

StringsUpTo(chars, n) == UNION {[1..k -> chars] : k \in 0..n}

DictKeys(entries) == {e.k : e \in entries}
DictGet(entries, key) == (CHOOSE e \in entries : e.k = key).v
DictSet(entries, key, value) ==
    {e \in entries : e.k # key} \cup {[k |-> key, v |-> value]}

Return(value) == [kind |-> "return", value |-> value]
Raise(type, exc) == [kind |-> "raise", type |-> type, exc |-> exc]

\* OpenShiftCheckException.__init__(name, msg=None): args holds the positional
\* arguments; with one argument it is the message and name is the class name.
OpenShiftCheckException(args) ==
    IF Len(args) = 1
    THEN [name |-> "OpenShiftCheckException", msg |-> args[1]]
    ELSE [name |-> args[1], msg |-> args[2]]

(***************************************************************************)
(* String functions of the Python library, as they compute.                *)
(***************************************************************************)
\* str.split(sep): the pieces between occurrences of sep; "" gives [""].
RECURSIVE SplitFrom(_, _, _, _)
SplitFrom(s, sep, i, piece) ==
    IF i > Len(s) THEN <<piece>>
    ELSE IF s[i] = sep THEN <<piece>> \o SplitFrom(s, sep, i + 1, <<>>)
    ELSE SplitFrom(s, sep, i + 1, Append(piece, s[i]))

split(s, sep) == SplitFrom(s, sep, 1, <<>>)

\* sep.join(pieces)
RECURSIVE join(_, _)
join(pieces, sep) ==
    IF Len(pieces) = 0 THEN <<>>
    ELSE IF Len(pieces) = 1 THEN pieces[1]
    ELSE pieces[1] \o <<sep>> \o join(Tail(pieces), sep)

\* str.rstrip(sep)
RECURSIVE rstrip(_, _)
rstrip(s, sep) ==
    IF Len(s) > 0 /\ s[Len(s)] = sep THEN rstrip(SubSeq(s, 1, Len(s) - 1), sep)
    ELSE s

\* str.rfind(sep) + 1, counting positions from 1: 0 when sep does not occur.
rfind1(s, sep) ==
    LET hits == {i \in 1..Len(s) : s[i] = sep}
    IN  IF hits = {} THEN 0 ELSE CHOOSE i \in hits : \A j \in hits : j <= i

\* posixpath.dirname(p): the head up to the last "/", with trailing slashes
\* stripped unless the head is nothing but slashes.
dirname(p) ==
    LET head == SubSeq(p, 1, rfind1(p, "/"))
    IN  IF Len(head) > 0 /\ (\E i \in 1..Len(head) : head[i] # "/")
        THEN rstrip(head, "/")
        ELSE head

\* the character order sorted() uses on the atoms of a path
AtomRank(c) == CASE c = "/" -> 47 [] c = "a" -> 97 [] c = "b" -> 98 [] OTHER -> 99

RECURSIVE StrLess(_, _)
StrLess(a, b) ==
    IF Len(b) = 0 THEN FALSE
    ELSE IF Len(a) = 0 THEN TRUE
    ELSE IF a[1] # b[1] THEN AtomRank(a[1]) < AtomRank(b[1])
    ELSE StrLess(Tail(a), Tail(b))

\* sorted(keys) of a set of strings
RECURSIVE sorted(_)
sorted(keys) ==
    IF keys = {} THEN <<>>
    ELSE LET least == CHOOSE k \in keys : \A o \in keys \ {k} : StrLess(k, o)
         IN  <<least>> \o sorted(keys \ {least})

(***************************************************************************)
(* OpenShiftCheck.get_var                                                  *)
(***************************************************************************)
\* a lookup that answers None for an absent key, as dict.get would
getitem_lenient(container, key) ==
    IF container.t = "dict"
    THEN IF key \in DictKeys(container.v)
         THEN Return(DictGet(container.v, key))
         ELSE Return(PyNone)
    ELSE Raise("TypeError", key)

\* operator.getitem(container, key) for a string key: a dict looks the key up
\* (KeyError when absent); a list, string, number, bool or None cannot be
\* indexed by a string (TypeError).
getitem(container, key) ==
    IF container.t = "dict"
    THEN IF key \in DictKeys(container.v)
         THEN Return(DictGet(container.v, key))
         ELSE Raise("KeyError", key)
    ELSE Raise("TypeError", key)

\* reduce(operator.getitem, keys, acc)
RECURSIVE reduce_getitem(_, _)
reduce_getitem(keys, acc) ==
    IF Len(keys) = 0 THEN Return(acc)
    ELSE LET r == getitem(acc, keys[1])
         IN  IF r.kind = "raise" THEN r ELSE reduce_getitem(Tail(keys), r.value)

\* str.lower() on the chunks the model uses
lower(s) ==
    [i \in 1..Len(s) |->
        CASE s[i] = "Yes" -> "yes" [] s[i] = "TRUE" -> "true" [] OTHER -> s[i]]

\* ansible.plugins.filter.core.to_bool
ansible_to_bool(a) ==
    IF a.t \in {"None", "bool"} THEN a
    ELSE IF a.t = "str"
         THEN PyBool(lower(a.v) \in {S("yes"), S("on"), S("1"), S("true")})
    ELSE IF a.t = "int" THEN PyBool(a.v = 1)
    ELSE PyBool(FALSE)

\* keyword arguments of get_var: default (when has_default) and convert.
\* convert is None, bool, or a function given by what it does with the value.
NoKwargs == [has_default |-> FALSE, default |-> PyNone, convert |-> "None"]
Kwargs(has_default, default, convert) ==
    [has_default |-> has_default, default |-> default, convert |-> convert]

\* lines 150-175: apply convert and translate its failures
convert_value(keys, value, convert) ==
    CASE convert = "None" -> Return(value)
      [] convert = "bool" -> Return(ansible_to_bool(value))
      [] convert = "fn_returns" -> Return([t |-> "converted", v |-> value])
      [] convert = "fn_raises_ValueError" ->
            Raise("OpenShiftCheckException", OpenShiftCheckException(
                <<[text |-> "Cannot convert inventory variable to expected type",
                   var |-> join(keys, "."), value |-> value]>>))
      [] convert = "fn_raises_OpenShiftCheckException" ->
            Raise("OpenShiftCheckException", OpenShiftCheckException(
                <<"ConverterError", [text |-> "raised by the converter",
                   var |-> <<>>, value |-> value]>>))
      [] OTHER ->
            Raise("OpenShiftCheckException", OpenShiftCheckException(
                <<[text |-> "There is a bug in this check",
                   var |-> join(keys, "."), value |-> value]>>))

\* get_var(*args, **kwargs) on self.task_vars
get_var(args, kwargs) ==
    LET keys == IF Len(args) = 1 THEN split(args[1], ".") ELSE args
        found == reduce_getitem(keys, task_vars)
    IN  IF found.kind = "raise" /\ ~kwargs.has_default
        THEN Raise("OpenShiftCheckException", OpenShiftCheckException(
                <<[text |-> "This check expects the inventory variable to be defined",
                   var |-> join(keys, "."), value |-> PyNone]>>))
        ELSE convert_value(keys,
                           IF found.kind = "raise" THEN kwargs.default ELSE found.value,
                           kwargs.convert)

(***************************************************************************)
(* OpenShiftCheck.__init__                                                 *)
(***************************************************************************)
\* lines 56-62: the fields of a new check
__init__(execute_module, task_vars_arg, tmp_arg) ==
    /\ _execute_module = execute_module
    /\ task_vars = IF task_vars_arg.t = "None" THEN PyDict({}) ELSE task_vars_arg
    /\ tmp = tmp_arg
    /\ changed = FALSE

\* a check class that layers no mixin over OpenShiftCheck
PlainCheck == [mro |-> <<>>, base_is_active |-> TRUE, dependencies |-> <<>>]

\* no call has been made on the new check
NoCall ==
    /\ pc = "idle"
    /\ op = [name |-> "none"]
    /\ mount_for_path = {}
    /\ mount_point = <<>>
    /\ result = [kind |-> "none"]
    /\ calls = <<>>
    /\ class_bases = <<>>

(***************************************************************************)
(* OpenShiftCheck.find_ansible_mount                                       *)
(***************************************************************************)
PathChars == {"/", "a", "b"}
Paths == StringsUpTo(PathChars, MaxPathLen)

MountPaths == {<<"/">>, <<"/", "a">>, <<"/", "a", "/", "b">>, <<"/", "b">>}
Devices == {"sda", "sdb"}
MountRecord(path, device) ==
    PyDict({[k |-> S("mount"), v |-> PyStr(path)],
            [k |-> S("device"), v |-> PyStr(S(device))]})
MountRecords == {MountRecord(p, d) : p \in MountPaths, d \in Devices}
MountTables == UNION {[1..n -> MountRecords] : n \in 0..MaxMounts}
MountTaskVars ==
    {PyDict({})} \cup
    {PyDict({[k |-> S("ansible_mounts"), v |-> PyList(t)]}) : t \in MountTables}

\* {mount['mount']: mount for mount in mounts}: a later record replaces an
\* earlier one with the same mount path
RECURSIVE dict_by_mount(_, _)
dict_by_mount(mounts, acc) ==
    IF Len(mounts) = 0 THEN acc
    ELSE dict_by_mount(Tail(mounts),
                       DictSet(acc, getitem(mounts[1], S("mount")).value.v, mounts[1]))

\* set(mount_for_path.keys()) | {'/', ''}
mount_targets == DictKeys(mount_for_path) \cup {<<"/">>, <<>>}

\* a check instance serves one call: it is built, used and discarded
Idle == pc = "idle"

\* lines 200-212: up to the loop
find_ansible_mount_call(path) ==
    /\ Idle
    /\ op' = [name |-> "find_ansible_mount", path |-> path]
    /\ calls' = <<>>
    /\ LET mounts == get_var(<<S("ansible_mounts")>>, NoKwargs)
       IN  IF mounts.kind = "raise"
           THEN /\ result' = mounts
                /\ pc' = "done"
                /\ UNCHANGED <<mount_for_path, mount_point>>
           ELSE /\ mount_for_path' = dict_by_mount(mounts.value.v, {})
                /\ mount_point' = path
                /\ result' = [kind |-> "none"]
                /\ pc' = "find_loop"
    /\ UNCHANGED fields

\* lines 213-214: one iteration of the while loop
find_ansible_mount_loop ==
    /\ pc = "find_loop"
    /\ mount_point \notin mount_targets
    /\ mount_point' = dirname(mount_point)
    /\ UNCHANGED <<fields, pc, op, mount_for_path, result, calls>>

\* lines 216-223: the loop has ended; look the mount point up
find_ansible_mount_lookup ==
    /\ pc = "find_loop"
    /\ mount_point \in mount_targets
    /\ result' =
          IF mount_point \in DictKeys(mount_for_path)
          THEN Return(DictGet(mount_for_path, mount_point))
          ELSE Raise("OpenShiftCheckException", OpenShiftCheckException(
                  <<[text |-> "Unable to determine mount point for path",
                     var |-> op.path,
                     value |-> sorted(DictKeys(mount_for_path))]>>))
    /\ pc' = "done"
    /\ UNCHANGED <<fields, op, locals, calls>>

\* find_ansible_mount on a check built from any of the mount tables
InitMount ==
    /\ \E tv \in MountTaskVars : __init__("None", tv, PyNone)
    /\ check_class = PlainCheck
    /\ NoCall

NextMount ==
    \/ \E path \in Paths : find_ansible_mount_call(path)
    \/ find_ansible_mount_loop
    \/ find_ansible_mount_lookup

SpecMount == InitMount /\ [][NextMount]_vars

\* the interpreter keeps executing a call that has a next step
FairSpecMount == SpecMount /\ WF_vars(NextMount)

(***************************************************************************)
(* Claims about find_ansible_mount                                         *)
(***************************************************************************)
IsAbsolute(p) == Len(p) > 0 /\ p[1] = "/"

\* q is p itself, the root of an absolute p, or a prefix of p that ends at a
\* component boundary
IsAncestor(q, p) ==
    \/ q = p
    \/ q = <<"/">> /\ IsAbsolute(p)
    \/ /\ Len(q) > 0
       /\ Len(q) < Len(p)
       /\ SubSeq(p, 1, Len(q)) = q
       /\ q[Len(q)] # "/"
       /\ p[Len(q) + 1] = "/"

HasMountTable == S("ansible_mounts") \in DictKeys(task_vars.v)
MountTable == DictGet(task_vars.v, S("ansible_mounts")).v
TableRecords == {MountTable[i] : i \in 1..Len(MountTable)}
MountOf(record) == DictGet(record.v, S("mount")).v
MountAncestors(p) == {MountOf(r) : r \in {x \in TableRecords : IsAncestor(MountOf(x), p)}}
LongestIn(paths) == CHOOSE q \in paths : \A o \in paths : Len(o) <= Len(q)

InMountLoop == pc = "find_loop"
MountCallDone == pc = "done" /\ op.name = "find_ansible_mount"

\* C1: find_ansible_mount terminates for every path and every table: a call
\* that has entered the loop always comes to return a record or to raise.
C1_Terminates == InMountLoop ~> MountCallDone

\* the answer C2 describes, for a finished call
NearestMountAnswer ==
    (MountCallDone /\ HasMountTable /\ IsAbsolute(op.path)) =>
        IF MountAncestors(op.path) = {}
        THEN result.kind = "raise" /\ result.type = "OpenShiftCheckException"
        ELSE /\ result.kind = "return"
             /\ result.value \in TableRecords
             /\ MountOf(result.value) = LongestIn(MountAncestors(op.path))

\* C2: for every absolute path and every table, find_ansible_mount returns the
\* record of the longest ancestor of the path that is a mount path of the
\* table, and raises OpenShiftCheckException only when there is none.
C2_ReturnsNearestMount ==
    /\ []NearestMountAnswer
    /\ ((InMountLoop /\ IsAbsolute(op.path)) ~> MountCallDone)

(***************************************************************************)
(* Calls of get_var on configuration trees                                 *)
(***************************************************************************)
KeyChars == {"a", "b", "."}
KeyNames == {<<"a">>, <<"b">>, <<"a", ".", "b">>}

\* the value other than a dict or a number stored under "b" at depth d
LeafOther(d) == IF d % 2 = 1 THEN PyList(<<PyInt(d)>>) ELSE PyStr(S("leaf"))

\* the dicts found at depth d of a tree: "a" is absent, a number or a nested
\* dict (down to MaxDepth), "b" is absent or a list or string
RECURSIVE VarDicts(_)
VarDicts(d) ==
    LET under_a == {{}, {[k |-> S("a"), v |-> PyInt(d)]}} \cup
                   (IF d < MaxDepth
                    THEN {{[k |-> S("a"), v |-> sub]} : sub \in VarDicts(d + 1)}
                    ELSE {})
        under_b == {{}, {[k |-> S("b"), v |-> LeafOther(d)]}}
    IN  {PyDict(x \cup y) : x \in under_a, y \in under_b}

\* a tree may also hold a key that itself contains a dot
VarTrees ==
    {PyDict(tree.v \cup dotted) :
        tree \in VarDicts(1),
        dotted \in {{}, {[k |-> <<"a", ".", "b">>, v |-> PyStr(S("dotted"))]}}}

\* get_var("a.b") and get_var("a", "b", ...): one string, or several keys
VarArgs ==
    {<<s>> : s \in StringsUpTo(KeyChars, MaxKeyLen)} \cup
    {<<>>} \cup UNION {[1..n -> KeyNames] : n \in 2..MaxKeys}

Converters == {"None", "bool", "fn_returns", "fn_raises_ValueError",
               "fn_raises_OpenShiftCheckException", "fn_raises_Exception"}
VarKwargs ==
    {Kwargs(FALSE, PyNone, c) : c \in Converters} \cup
    {Kwargs(TRUE, PyStr(S("Yes")), c) : c \in {"None", "bool"}}

\* one call of get_var, lines 118-175
get_var_call(args, kwargs) ==
    /\ Idle
    /\ op' = [name |-> "get_var", args |-> args, kwargs |-> kwargs]
    /\ result' = get_var(args, kwargs)
    /\ pc' = "done"
    /\ UNCHANGED <<fields, locals, calls>>

InitVar ==
    /\ \E tv \in VarTrees : __init__("None", tv, PyNone)
    /\ check_class = PlainCheck
    /\ NoCall

NextVar == \E args \in VarArgs, kwargs \in VarKwargs : get_var_call(args, kwargs)

SpecVar == InitVar /\ [][NextVar]_vars

(***************************************************************************)
(* Claims about get_var                                                    *)
(***************************************************************************)
\* the keys a dotted string names: the pieces between its dots
Components(s) ==
    LET dots == {i \in 1..Len(s) : s[i] = "."}
        cuts == {0, Len(s) + 1} \cup dots
        after(i) == CHOOSE j \in cuts : j > i /\ \A o \in cuts : o > i => j <= o
        RECURSIVE from(_)
        from(i) == IF i = Len(s) + 1 THEN <<>>
                   ELSE <<SubSeq(s, i + 1, after(i) - 1)>> \o from(after(i))
    IN  from(0)

KeyPath(args) == IF Len(args) = 1 THEN Components(args[1]) ELSE args

\* the dotted form of a key path: its keys with a dot between neighbours
RECURSIVE DottedForm(_)
DottedForm(keys) ==
    IF Len(keys) = 0 THEN <<>>
    ELSE IF Len(keys) = 1 THEN keys[1]
    ELSE DottedForm(SubSeq(keys, 1, Len(keys) - 1)) \o <<".">> \o keys[Len(keys)]

\* every value of a tree with the key path that leads to it through dicts
RECURSIVE NodesOf(_, _)
NodesOf(value, path) ==
    {[path |-> path, value |-> value]} \cup
    (IF value.t = "dict"
     THEN UNION {NodesOf(e.v, Append(path, e.k)) : e \in value.v}
     ELSE {})

PlainGetVarDone ==
    /\ pc = "done"
    /\ op.name = "get_var"
    /\ ~op.kwargs.has_default
    /\ op.kwargs.convert = "None"

\* C3: get_var(P) with no default and no convert returns exactly the value
\* nested at P when every key of P resolves through nested dicts, and
\* otherwise raises OpenShiftCheckException whose message names the dotted
\* form of P.
C3_GetVarExactOrMissing ==
    PlainGetVarDone =>
        LET at == {n \in NodesOf(task_vars, <<>>) : n.path = KeyPath(op.args)}
        IN  IF at # {}
            THEN \A n \in at : result = Return(n.value)
            ELSE /\ result.kind = "raise"
                 /\ result.type = "OpenShiftCheckException"
                 /\ result.exc.msg.text =
                        "This check expects the inventory variable to be defined"
                 /\ result.exc.msg.var = DottedForm(KeyPath(op.args))
                 /\ (Len(op.args) = 1 => result.exc.msg.var = op.args[1])

\* a value found two levels down through a dotted string
C3_WitnessFound ==
    /\ PlainGetVarDone
    /\ op.args = <<<<"a", ".", "a">>>>
    /\ result = Return(PyInt(2))

\* a path that runs into a value that is not a dict
C3_WitnessMissing ==
    /\ PlainGetVarDone
    /\ op.args = <<<<"b", ".", "a">>>>
    /\ S("b") \in DictKeys(task_vars.v)
    /\ result.kind = "raise"

\* C4: a converter that raises ValueError and a converter that fails in any
\* other way give OpenShiftCheckExceptions with different name fields.
C4_ConverterFailuresDifferByName ==
    (/\ pc = "done"
     /\ op.name = "get_var"
     /\ op.kwargs.convert = "fn_raises_ValueError"
     /\ result.exc.msg.text = "Cannot convert inventory variable to expected type")
    => result.exc.name #
         get_var(op.args, [op.kwargs EXCEPT !.convert = "fn_raises_Exception"]).exc.name

(***************************************************************************)
(* OpenShiftCheck.get_major_minor_version                                  *)
(***************************************************************************)
DigitChars == {"0", "1", "3", "5"}
DigitValue(c) == CASE c = "0" -> 0 [] c = "1" -> 1 [] c = "3" -> 3 [] c = "5" -> 5

\* int(s) for a string of the model's characters: the decimal number it
\* writes, ValueError for the empty string or any character but a digit
RECURSIVE int_digits(_, _)
int_digits(s, acc) ==
    IF Len(s) = 0 THEN acc
    ELSE int_digits(Tail(s), 10 * acc + DigitValue(s[1]))

int(s) ==
    IF Len(s) > 0 /\ \A i \in 1..Len(s) : s[i] \in DigitChars
    THEN Return(int_digits(s, 0))
    ELSE Raise("ValueError", s)

\* lines 185-187
openshift_major_release_version == {[k |-> <<"1">>, v |-> <<"3">>]}

\* the table applied to every component
alias_every_component(components) ==
    [i \in 1..Len(components) |->
        IF components[i] \in DictKeys(openshift_major_release_version)
        THEN DictGet(openshift_major_release_version, components[i])
        ELSE components[i]]

\* lines 194-195: the table applied to components[0]
alias_major(components) ==
    IF components[1] \in DictKeys(openshift_major_release_version)
    THEN [components EXCEPT ![1] = DictGet(openshift_major_release_version, components[1])]
    ELSE components

\* lines 177-198
get_major_minor_version(openshift_image_tag) ==
    LET tag == IF Len(openshift_image_tag) > 0 /\ openshift_image_tag[1] = "v"
               THEN Tail(openshift_image_tag)
               ELSE openshift_image_tag
        components == split(tag, ".")
    IN  IF Len(components) < 2
        THEN Raise("OpenShiftCheckException", OpenShiftCheckException(
                <<[text |-> "An invalid version of OpenShift was found for this host",
                   var |-> tag, value |-> PyNone]>>))
        ELSE LET aliased == alias_major(components)
                 major == int(aliased[1])
                 minor == int(aliased[2])
             IN  IF major.kind = "raise" THEN major
                 ELSE IF minor.kind = "raise" THEN minor
                 ELSE Return([t |-> "tuple", v |-> <<major.value, minor.value>>])

TagChars == {"v", ".", "1", "3"}
VersionTags ==
    StringsUpTo(TagChars, MaxTagLen) \cup
    {<<"v", "3", ".", "1", "1", ".", "0">>, <<"1", ".", "5">>, <<"3", ".", "1">>, <<"3">>}

get_major_minor_version_call(tag) ==
    /\ Idle
    /\ op' = [name |-> "get_major_minor_version", tag |-> tag]
    /\ result' = get_major_minor_version(tag)
    /\ pc' = "done"
    /\ UNCHANGED <<fields, locals, calls>>

InitVersion ==
    /\ __init__("None", PyNone, PyNone)
    /\ check_class = PlainCheck
    /\ NoCall

NextVersion == \E tag \in VersionTags : get_major_minor_version_call(tag)

SpecVersion == InitVersion /\ [][NextVersion]_vars

(***************************************************************************)
(* Claims about get_major_minor_version                                    *)
(***************************************************************************)
IsNumeral(s) == Len(s) > 0 /\ \A i \in 1..Len(s) : s[i] \in DigitChars

RECURSIVE TenTo(_)
TenTo(n) == IF n = 0 THEN 1 ELSE 10 * TenTo(n - 1)

RECURSIVE PlaceSum(_, _)
PlaceSum(s, i) ==
    IF i > Len(s) THEN 0
    ELSE DigitValue(s[i]) * TenTo(Len(s) - i) + PlaceSum(s, i + 1)

\* the number a numeral writes: the sum of its digits times their place values
NumberOf(s) == PlaceSum(s, 1)

VersionDone == pc = "done" /\ op.name = "get_major_minor_version"

VersionOf(tag, major, minor) ==
    (VersionDone /\ op.tag = tag) =>
        result = Return([t |-> "tuple", v |-> <<major, minor>>])

\* C5: get_major_minor_version strips at most one leading "v", splits on ".",
\* raises OpenShiftCheckException when fewer than 2 components result, and for
\* numeric first two components returns exactly (int(alias(first)),
\* int(second)), the alias "1" -> "3" applying to the first component only and
\* later components being ignored.
C5_MajorMinor ==
    /\ VersionDone =>
          LET body == IF Len(op.tag) > 0 /\ op.tag[1] = "v"
                      THEN SubSeq(op.tag, 2, Len(op.tag)) ELSE op.tag
              parts == Components(body)
          IN  IF Len(parts) < 2
              THEN /\ result.kind = "raise"
                   /\ result.type = "OpenShiftCheckException"
              ELSE IF IsNumeral(parts[1]) /\ IsNumeral(parts[2])
              THEN /\ result.kind = "return"
                   /\ Len(result.value.v) = 2
                   /\ result.value.v[1] =
                         IF parts[1] = <<"1">> THEN 3 ELSE NumberOf(parts[1])
                   /\ result.value.v[2] = NumberOf(parts[2])
              ELSE result.kind = "raise" /\ result.type = "ValueError"
    /\ VersionOf(<<"v", "3", ".", "1", "1", ".", "0">>, 3, 11)
    /\ VersionOf(<<"1", ".", "5">>, 3, 5)
    /\ VersionOf(<<"3", ".", "1">>, 3, 1)
    /\ (VersionDone /\ op.tag = <<"3">>) => result.kind = "raise"

\* the alias reaches the major version and leaves a minor version of 1 alone
C5_Witness ==
    /\ VersionDone
    /\ op.tag = <<"v", "1", ".", "1">>
    /\ result = Return([t |-> "tuple", v |-> <<3, 1>>])

(***************************************************************************)
(* mixins.py: NotContainerizedMixin.is_active, DockerHostMixin.is_active   *)
(***************************************************************************)
\* bool(value)
truth(value) ==
    CASE value.t = "bool" -> value.v
      [] value.t = "None" -> FALSE
      [] value.t = "int" -> value.v # 0
      [] value.t = "str" -> Len(value.v) > 0
      [] value.t = "list" -> Len(value.v) > 0
      [] OTHER -> value.v # {}

\* item in list
list_contains(list, item) == \E i \in 1..Len(list.v) : list.v[i] = item

is_containerized_var == <<S("openshift"), S("common"), S("is_containerized")>>

RECURSIVE is_active(_)

\* a mixin that answers from the flag alone and does not ask the classes after it
NotContainerizedMixin_flag_only(rest) ==
    LET is_containerized == get_var(is_containerized_var, NoKwargs)
    IN  IF is_containerized.kind = "raise" THEN is_containerized
        ELSE Return(PyBool(~truth(is_containerized.value)))

\* mixins.py lines 11-14; rest is the classes after the mixin in the MRO
NotContainerizedMixin_is_active(rest) ==
    LET is_containerized == get_var(is_containerized_var, NoKwargs)
    IN  IF is_containerized.kind = "raise" THEN is_containerized
        ELSE LET super == is_active(rest)
             IN  IF super.kind = "raise" THEN super
                 ELSE IF ~truth(super.value) THEN super
                 ELSE Return(PyBool(~truth(is_containerized.value)))

\* mixins.py lines 22-26
DockerHostMixin_is_active(rest) ==
    LET is_containerized == get_var(is_containerized_var, NoKwargs)
    IN  IF is_containerized.kind = "raise" THEN is_containerized
        ELSE LET group_names == get_var(<<S("group_names")>>,
                                        Kwargs(TRUE, PyList(<<>>), "None"))
                 is_node == PyBool(list_contains(group_names.value, PyStr(S("nodes"))))
                 super == is_active(rest)
             IN  IF super.kind = "raise" THEN super
                 ELSE IF ~truth(super.value) THEN super
                 ELSE IF truth(is_containerized.value)
                      THEN Return(is_containerized.value)
                      ELSE Return(is_node)

\* is_active() resolved along the method resolution order: the mixins in the
\* order the class lists them, then the base check (__init__.py lines 78-81
\* or the base check's own override)
is_active(mro) ==
    IF Len(mro) = 0 THEN Return(PyBool(check_class.base_is_active))
    ELSE IF mro[1] = "NotContainerizedMixin"
         THEN NotContainerizedMixin_is_active(Tail(mro))
         ELSE DockerHostMixin_is_active(Tail(mro))

is_active_call ==
    /\ Idle
    /\ op' = [name |-> "is_active"]
    /\ result' = is_active(check_class.mro)
    /\ pc' = "done"
    /\ UNCHANGED <<fields, locals, calls>>

OptionalEntry(key, values) == {{}} \cup {{[k |-> key, v |-> x]} : x \in values}

\* task_vars with the given entries under openshift.common
WithCommon(common, others) ==
    PyDict({[k |-> S("openshift"),
             v |-> PyDict({[k |-> S("common"), v |-> PyDict(common)]})]} \cup others)

GroupNames ==
    {PyList(<<>>), PyList(<<PyStr(S("masters"))>>),
     PyList(<<PyStr(S("masters")), PyStr(S("nodes"))>>)}

ActiveTaskVars ==
    {WithCommon(c, g) :
        c \in OptionalEntry(S("is_containerized"), {PyBool(TRUE), PyBool(FALSE)}),
        g \in OptionalEntry(S("group_names"), GroupNames)}

Mixins == {"NotContainerizedMixin", "DockerHostMixin"}

\* class Check(mixins..., BaseCheck): no mixin, one, or both in either order
MixinOrders ==
    {<<>>} \cup {<<m>> : m \in Mixins} \cup
    {o \in Mixins \X Mixins : o[1] # o[2]}

DependencyLists == {<<>>, <<S("docker"), S("skopeo")>>}

CheckClasses ==
    [mro : MixinOrders, base_is_active : BOOLEAN, dependencies : DependencyLists]

InitActive ==
    /\ \E tv \in ActiveTaskVars : __init__("None", tv, PyNone)
    /\ check_class \in CheckClasses
    /\ NoCall

NextActive == is_active_call

SpecActive == InitActive /\ [][NextActive]_vars

(***************************************************************************)
(* Claims about is_active                                                  *)
(***************************************************************************)
\* the values stored in the tree at a key path (none or one)
ValuesAt(path) == {n.value : n \in {x \in NodesOf(task_vars, <<>>) : x.path = path}}

FlagIs(path, b) == ValuesAt(path) = {PyBool(b)}

InNodesGroup ==
    \E g \in ValuesAt(<<S("group_names")>>) :
        \E i \in 1..Len(g.v) : g.v[i] = PyStr(S("nodes"))

\* each mixin's own condition
MixinCondition(m) ==
    IF m = "NotContainerizedMixin"
    THEN FlagIs(is_containerized_var, FALSE)
    ELSE FlagIs(is_containerized_var, TRUE) \/ InNodesGroup

ActiveDone == pc = "done" /\ op.name = "is_active"

\* C6: with NotContainerizedMixin and/or DockerHostMixin layered over a base
\* check, is_active() is the AND of the base check's is_active() and each
\* layered mixin's condition; with NotContainerizedMixin it is false whenever
\* is_containerized is true, whatever the base decides.
C6_ActiveIsConjunction ==
    (ActiveDone /\ ValuesAt(is_containerized_var) # {}) =>
        /\ result = Return(PyBool(
              /\ check_class.base_is_active
              /\ \A i \in 1..Len(check_class.mro) : MixinCondition(check_class.mro[i])))
        /\ (/\ \E i \in 1..Len(check_class.mro) :
                    check_class.mro[i] = "NotContainerizedMixin"
             /\ FlagIs(is_containerized_var, TRUE))
           => result = Return(PyBool(FALSE))

\* both mixins over an active base check on a containerized host: the Docker
\* condition holds and NotContainerizedMixin makes the check inactive
C6_Witness ==
    /\ ActiveDone
    /\ check_class.mro = <<"DockerHostMixin", "NotContainerizedMixin">>
    /\ check_class.base_is_active
    /\ FlagIs(is_containerized_var, TRUE)
    /\ result = Return(PyBool(FALSE))

(***************************************************************************)
(* OpenShiftCheck.execute_module and DockerHostMixin.ensure_dependencies   *)
(***************************************************************************)
\* an invocation that hands the module an empty task_vars
module_invocation_without_vars(module_name, module_args) ==
    [module_name |-> module_name, module_args |-> module_args,
     tmp |-> tmp, task_vars |-> PyDict({})]

\* line 116: the arguments self._execute_module is called with
module_invocation(module_name, module_args) ==
    [module_name |-> module_name, module_args |-> module_args,
     tmp |-> tmp, task_vars |-> task_vars]

\* lines 111-116: raise without the callable, else call it and wait for it
invoke(module_name, module_args) ==
    IF _execute_module = "None"
    THEN /\ result' = Raise("NotImplementedError",
                            "invoked execute_module without providing the method at initialization.")
         /\ calls' = <<>>
         /\ pc' = "done"
    ELSE /\ result' = [kind |-> "none"]
         /\ calls' = <<module_invocation(module_name, module_args)>>
         /\ pc' = "in_module"

\* check.execute_module(module_name, module_args), lines 97-116
execute_module_call(module_name, module_args) ==
    /\ Idle
    /\ op' = [name |-> "execute_module", module_name |-> module_name,
              module_args |-> module_args, returned |-> PyNone]
    /\ invoke(module_name, module_args)
    /\ UNCHANGED <<fields, locals>>

\* dict.get(key, default)
dict_get(dict, key, default) ==
    IF key \in DictKeys(dict.v) THEN DictGet(dict.v, key) ELSE default

\* sub in s
contains(s, sub) ==
    \E i \in 0..(Len(s) - Len(sub)) : SubSeq(s, i + 1, i + Len(sub)) = sub

\* the install is attempted with the default package manager dnf
pkg_mgr_default_dnf == get_var(<<S("ansible_pkg_mgr")>>, Kwargs(TRUE, PyStr(S("dnf")), "None"))

\* mixins.py line 40
pkg_mgr == get_var(<<S("ansible_pkg_mgr")>>, Kwargs(TRUE, PyStr(S("yum")), "None"))

\* mixins.py line 41
install_args ==
    PyDict({[k |-> S("name"), v |-> PyList(check_class.dependencies)],
            [k |-> S("state"), v |-> PyStr(S("present"))]})

\* mixins.py lines 43-53: (msg, failed, changed) from the module's result
ensure_dependencies_result(module_result) ==
    LET msg == dict_get(module_result, S("msg"), PyStr(<<>>)).v
        hint == IF contains(msg, S("No package matching"))
                THEN S("Ensure that all required dependencies can be installed via yum.")
                ELSE msg
        failed == truth(dict_get(module_result, S("failed"), PyBool(FALSE)))
                  \/ dict_get(module_result, S("rc"), PyInt(0)) # PyInt(0)
    IN  Return([t |-> "tuple", v |-> <<
            PyStr(IF truth(dict_get(module_result, S("failed"), PyNone))
                  THEN S("Unable to install required packages on this host:")
                       \o join(check_class.dependencies, ",")
                       \o S("<newline>") \o hint
                  ELSE msg),
            PyBool(failed),
            dict_get(module_result, S("changed"), PyBool(FALSE))>>])

is_atomic_var == <<S("openshift"), S("common"), S("is_atomic")>>

\* mixins.py lines 28-42: up to the call of the package manager module
ensure_dependencies_call ==
    /\ Idle
    /\ op' = [name |-> "ensure_dependencies", returned |-> PyNone]
    /\ LET is_atomic == get_var(is_atomic_var, NoKwargs)
       IN  IF is_atomic.kind = "raise"
           THEN result' = is_atomic /\ calls' = <<>> /\ pc' = "done"
           ELSE IF truth(is_atomic.value)
           THEN /\ result' = Return([t |-> "tuple",
                                     v |-> <<PyStr(<<>>), PyBool(FALSE), PyBool(FALSE)>>])
                /\ calls' = <<>>
                /\ pc' = "done"
           ELSE invoke(pkg_mgr.value, install_args)
    /\ UNCHANGED <<fields, locals>>

\* the injected callable returns: execute_module hands its result back
\* (line 116), ensure_dependencies goes on with lines 43-53
module_return(module_result) ==
    /\ pc = "in_module"
    /\ op' = [op EXCEPT !.returned = module_result]
    /\ result' = IF op.name = "execute_module"
                 THEN Return(module_result)
                 ELSE ensure_dependencies_result(module_result)
    /\ pc' = "done"
    /\ UNCHANGED <<fields, locals, calls>>

\* the result mappings of a module: msg, failed, rc and changed are optional
ModuleResults ==
    {PyDict(m \cup f \cup r \cup c) :
        m \in OptionalEntry(S("msg"),
                {PyStr(<<"No package matching", " 'skopeo' found available">>),
                 PyStr(S("Failure talking to yum"))}),
        f \in OptionalEntry(S("failed"), {PyBool(TRUE), PyBool(FALSE)}),
        r \in OptionalEntry(S("rc"), {PyInt(0), PyInt(1)}),
        c \in OptionalEntry(S("changed"), {PyBool(TRUE), PyBool(FALSE)})}

ModuleCalls ==
    {<<PyStr(S("check_yum_update")), PyDict({[k |-> S("packages"), v |-> PyList(<<>>)]})>>,
     <<PyStr(S("docker_info")), PyDict({})>>}

ModuleTaskVars ==
    {PyDict({})} \cup
    {WithCommon(c, p) :
        c \in OptionalEntry(S("is_atomic"), {PyBool(TRUE), PyBool(FALSE)}),
        p \in OptionalEntry(S("ansible_pkg_mgr"), {PyStr(S("dnf"))})}

DockerCheckClasses ==
    [mro : {<<"DockerHostMixin">>}, base_is_active : {TRUE}, dependencies : DependencyLists]

InitModule ==
    /\ \E em \in {"None", "execute_module"}, tv \in ModuleTaskVars,
          t \in {PyNone, PyStr(S("/tmp/ansible"))} : __init__(em, tv, t)
    /\ check_class \in DockerCheckClasses
    /\ NoCall

NextModule ==
    \/ \E c \in ModuleCalls : execute_module_call(c[1], c[2])
    \/ ensure_dependencies_call
    \/ \E r \in ModuleResults : module_return(r)

SpecModule == InitModule /\ [][NextModule]_vars

(***************************************************************************)
(* Claims about ensure_dependencies and execute_module                     *)
(***************************************************************************)
EnsureDone == pc = "done" /\ op.name = "ensure_dependencies"
ModuleReturned == pc = "done" /\ op.returned.t = "dict"

\* C7: ensure_dependencies treats a non-zero rc as failed: true: the (msg,
\* failed, changed) it returns for a result with rc != 0 and no failed flag is
\* the one it returns for that result with failed set to true.
C7_NonZeroRcSameAsFailed ==
    (/\ EnsureDone
     /\ ModuleReturned
     /\ S("failed") \notin DictKeys(op.returned.v)
     /\ dict_get(op.returned, S("rc"), PyInt(0)) # PyInt(0))
    => result = ensure_dependencies_result(
                    PyDict(DictSet(op.returned.v, S("failed"), PyBool(TRUE))))

ConfiguredPkgMgr ==
    IF ValuesAt(<<S("ansible_pkg_mgr")>>) = {}
    THEN PyStr(S("yum"))
    ELSE CHOOSE x \in ValuesAt(<<S("ansible_pkg_mgr")>>) : TRUE

InstallRequest ==
    [module_name |-> ConfiguredPkgMgr,
     module_args |-> PyDict({[k |-> S("name"), v |-> PyList(check_class.dependencies)],
                             [k |-> S("state"), v |-> PyStr(S("present"))]}),
     tmp |-> tmp,
     task_vars |-> task_vars]

\* C9: on an atomic host ensure_dependencies returns ("", False, False) and
\* never invokes the injected callable, whatever the dependencies; on a host
\* that is not atomic it invokes the callable exactly once, with the
\* configured ansible_pkg_mgr (default "yum") and {name: dependencies,
\* state: present}.  A check built without the callable has nothing to invoke
\* and raises NotImplementedError instead.
C9_AtomicSkipsInstall ==
    (op.name = "ensure_dependencies") =>
        /\ FlagIs(is_atomic_var, TRUE) =>
              /\ pc = "done"
              /\ calls = <<>>
              /\ result = Return([t |-> "tuple",
                                  v |-> <<PyStr(<<>>), PyBool(FALSE), PyBool(FALSE)>>])
        /\ (FlagIs(is_atomic_var, FALSE) /\ _execute_module # "None") =>
              calls = <<InstallRequest>>
        /\ (FlagIs(is_atomic_var, FALSE) /\ _execute_module = "None") =>
              /\ calls = <<>>
              /\ result.kind = "raise"
              /\ result.type = "NotImplementedError"

\* an atomic host with dependencies declared
C9_WitnessAtomic ==
    /\ EnsureDone
    /\ FlagIs(is_atomic_var, TRUE)
    /\ check_class.dependencies = <<S("docker"), S("skopeo")>>
    /\ calls = <<>>

\* a host that is not atomic and names no package manager: yum was asked once
C9_WitnessInstall ==
    /\ EnsureDone
    /\ FlagIs(is_atomic_var, FALSE)
    /\ ValuesAt(<<S("ansible_pkg_mgr")>>) = {}
    /\ Len(calls) = 1
    /\ calls[1].module_name = PyStr(S("yum"))

ExecuteStarted == op.name = "execute_module"

\* what execute_module has done at any point of a call
ExecuteModuleDelegates ==
    ExecuteStarted =>
        IF _execute_module = "None"
        THEN /\ pc = "done"
             /\ calls = <<>>
             /\ result.kind = "raise"
             /\ result.type = "NotImplementedError"
        ELSE /\ calls = <<[module_name |-> op.module_name,
                           module_args |-> op.module_args,
                           tmp |-> tmp, task_vars |-> task_vars]>>
             /\ pc = "done" => result = Return(op.returned)

\* C10: execute_module(name, args) calls the injected callable exactly once
\* with (name, args, self.tmp, self.task_vars) and returns its result
\* unchanged; without the callable it raises and makes no call; in both
\* cases changed and task_vars are left as they were.
C10_ExecuteModuleDelegates ==
    /\ []ExecuteModuleDelegates
    /\ [][ExecuteStarted' => (changed' = changed /\ task_vars' = task_vars)]_vars

\* a module's result handed back by a check that has a tmp directory
C10_Witness ==
    /\ ExecuteStarted
    /\ pc = "done"
    /\ tmp = PyStr(S("/tmp/ansible"))
    /\ task_vars # PyDict({})
    /\ Len(calls) = 1
    /\ DictKeys(op.returned.v) = {S("msg"), S("rc")}
    /\ result = Return(op.returned)

(***************************************************************************)
(* OpenShiftCheck.subclasses                                               *)
(***************************************************************************)
\* Classes are numbered in the order they are defined: 0 is OpenShiftCheck and
\* class i has the base classes class_bases[i], each defined before it.
Classes == 0..Len(class_bases)

\* cls.__subclasses__(): the classes that name cls as a base, in the order
\* they were defined
RECURSIVE direct_subclasses_from(_, _)
direct_subclasses_from(cls, i) ==
    IF i > Len(class_bases) THEN <<>>
    ELSE (IF cls \in class_bases[i] THEN <<i>> ELSE <<>>)
         \o direct_subclasses_from(cls, i + 1)

direct_subclasses(cls) == direct_subclasses_from(cls, 1)

\* lines 88-95: what the generator yields, in order
RECURSIVE subclasses(_)
RECURSIVE subclasses_of_each(_)
subclasses_of_each(direct) ==
    IF Len(direct) = 0 THEN <<>>
    ELSE <<direct[1]>> \o subclasses(direct[1]) \o subclasses_of_each(Tail(direct))

subclasses(cls) == subclasses_of_each(direct_subclasses(cls))

\* a class statement: a new check class with the given bases
define_class(bases) ==
    /\ Idle
    /\ Len(class_bases) < MaxClasses
    /\ class_bases' = Append(class_bases, bases)
    /\ UNCHANGED <<task_vars, _execute_module, tmp, changed, check_class,
                   pc, op, locals, result, calls>>

subclasses_call(cls) ==
    /\ Idle
    /\ op' = [name |-> "subclasses", cls |-> cls]
    /\ result' = Return(subclasses(cls))
    /\ pc' = "done"
    /\ UNCHANGED <<fields, locals, calls>>

InitClasses ==
    /\ __init__("None", PyNone, PyNone)
    /\ check_class = PlainCheck
    /\ NoCall

NextClasses ==
    \/ \E bases \in (SUBSET Classes) \ {{}} : define_class(bases)
    \/ \E cls \in Classes : subclasses_call(cls)

SpecClasses == InitClasses /\ [][NextClasses]_vars

(***************************************************************************)
(* Claims about subclasses                                                 *)
(***************************************************************************)
\* the classes that specialize cls directly or through other classes
RECURSIVE DescendantsWithin(_, _)
DescendantsWithin(found, n) ==
    IF n > Len(class_bases) THEN found
    ELSE DescendantsWithin(
            IF class_bases[n] \cap found # {} THEN found \cup {n} ELSE found, n + 1)

Descendants(cls) == DescendantsWithin({cls}, 1) \ {cls}

Occurrences(seq, x) == Cardinality({i \in 1..Len(seq) : seq[i] = x})

SubclassesDone == pc = "done" /\ op.name = "subclasses"

FirstAt(seq, x) == CHOOSE i \in 1..Len(seq) : seq[i] = x /\ \A j \in 1..(i - 1) : seq[j] # x

\* C8: for every hierarchy, also one with a check that specializes two other
\* checks, one call of subclasses() yields every transitive subclass exactly
\* once, depth first: a class right after the class it specializes or after
\* that class's earlier subclasses, direct subclasses in their own order.
C8_EachSubclassOnce ==
    SubclassesDone =>
        LET yielded == result.value
            direct == direct_subclasses(op.cls)
        IN  /\ {yielded[i] : i \in 1..Len(yielded)} = Descendants(op.cls)
            /\ \A c \in Descendants(op.cls) : Occurrences(yielded, c) = 1
            /\ \A i \in 1..Len(yielded) :
                  \/ op.cls \in class_bases[yielded[i]]
                  \/ \E j \in 1..(i - 1) : yielded[j] \in class_bases[yielded[i]]
            /\ \A i \in 1..Len(direct) : \A j \in (i + 1)..Len(direct) :
                  FirstAt(yielded, direct[i]) < FirstAt(yielded, direct[j])
====
